---- MODULE Spec2Model ----
(***************************************************************************)
(* Model of the Tado hardware-teardown capture tools:                      *)
(*   - parse_spi_csv.py     extract_packets (CC110L protocol interpreter)  *)
(*   - saleae_parser_v2.py  read_varint, parse_digital_channel_simple,     *)
(*                          DigitalChannel.get_state_at, decode_spi_bytes, *)
(*                          analyze_cc110_commands                         *)
(*   - parse_saleae.py      SPIDecoder.get_state_at_time, SPIDecoder.decode*)
(*                                                                         *)
(* Each tool is a batch program; the module holds one specification per    *)
(* tool (SpecPkt, SpecParse, SpecSpi), one per pure function called on its *)
(* own (SpecLevel, SpecVarint), and SpecTwice (extract_packets called      *)
(* twice), SpecCeiling (the decode loop at its safety limit) and SpecMain  *)
(* (the two main functions).  The variables that a specification does not  *)
(* use stay at their idle values.                                          *)
(*                                                                         *)
(* Conventions: Python indices are 0-based, TLA+ sequences 1-based, so     *)
(* transactions[i] of the code is At(transactions, i) here.  Python None   *)
(* is the empty sequence <<>> and a present value v is <<v>>.  The float   *)
(* rssi = raw/2 - 74 is kept exactly as the integer 2*rssi.                *)
(***************************************************************************)
EXTENDS Integers, Sequences, FiniteSets, TLC

VARIABLES
    \* ---- parse_spi_csv.py: extract_packets / analyze_cc110_commands ----
    transactions,   \* the input list of SPITransaction (time, mosi, miso)
    i,              \* loop index of extract_packets (0-based)
    packets,        \* the packets list built so far
    pc,             \* "loop" | "done" (returned) | "raised" (exception) | "idle"
    consumed,       \* history: every transactions[i] read, as [idx, role]
    labels,         \* output lines of analyze_cc110_commands, <<>> before it ran
    \* ---- saleae_parser_v2.py: parse_digital_channel_simple ----
    data,           \* the file's bytes
    offset,         \* read offset
    timestamp,      \* running absolute timestamp
    current_state,  \* running level
    transition_count,
    channel,        \* channel.transitions, a sequence of <<timestamp, state>>
    ppc,            \* "start" | "loop" | "returned" | "raised" | "idle"
    \* ---- decode_spi_bytes (v2) and SPIDecoder.decode ----
    mosi, miso, sclk, cs,   \* the four timelines, sequences of <<timestamp, state>>
    cs_low_periods,         \* v2: windows found by the first loop
    period_num,             \* v2: number of windows the second loop has handled
    bytes_decoded,          \* v2: bytes of the window handled last
    v2_transactions,        \* v2: the returned list
    cs_active_periods,      \* SPIDecoder: windows found
    dec_period,             \* SPIDecoder: number of windows handled
    dec_transactions,       \* SPIDecoder: the returned list
    sample_rate,            \* SPIDecoder: samples per second, from meta.json
    spc,                    \* "v2_find" | "v2_bytes" | "dec_find" | "dec_bytes" | "done" | "idle"
    \* ---- one call of a pure function: get_state_at, read_varint ----
    q_in,           \* the arguments of the call, a record
    q_out,          \* what the call returned, None before the call
    qpc,            \* "level" | "varint" (call pending) | "returned" | "idle"
    \* ---- extract_packets called a second time on the same list ----
    run,            \* 1 during the first call, 2 during the second, 0 when not run
    first_run,      \* the list passed to the first call and how that call ended
    \* ---- main() of saleae_parser_v2.py and of parse_saleae.py ----
    tool,           \* "v2" | "saleae" | "none"
    files,          \* digital-2.bin .. digital-5.bin: [exists, bytes] each
    loaded,         \* the parsed channels so far: miso, mosi, sclk, cs
    bus,            \* the transactions list of main, <<>> before the decoder ran
    mpc             \* "parse" | "decode" | "refused" | "raised" | "done" | "idle"

pktVars == <<transactions, i, packets, pc, consumed, labels>>
parseVars == <<data, offset, timestamp, current_state, transition_count, channel, ppc>>
spiVars == <<mosi, miso, sclk, cs, cs_low_periods, period_num, bytes_decoded,
             v2_transactions, cs_active_periods, dec_period, dec_transactions,
             sample_rate, spc>>
callVars == <<q_in, q_out, qpc>>
rerunVars == <<run, first_run>>
mainVars == <<tool, files, loaded, bus, mpc>>
auxVars == <<callVars, rerunVars, mainVars>>
vars == <<pktVars, parseVars, spiVars, auxVars>>

(***************************************************************************)
(* Bounds of the model.                                                    *)
(***************************************************************************)
MaxTx == 4            \* longest freely chosen transaction sequence
MaxLongPayload == 66  \* most payload transactions after a long burst header
MaxPayload == 4       \* most bytes of transition payload in a capture file
MaxCsLen == 4         \* most transitions of a freely chosen select timeline
MaxWindows == 21      \* most windows of a regular select timeline
MaxTimelineLen == 3   \* most transitions of a queried timeline
MaxTime == 3          \* largest timestamp of a queried timeline
MaxVarintValue == 300 \* every integer up to this one is encoded and read back
MaxVarintBytes == 4   \* longest encoding read back
MaxPrefix == 2        \* most bytes in front of an encoded integer
SmallLimit == 3       \* the safety limit of the decode loop, scaled down
ExtraPulses == 8      \* clock pulses decoded with a time delta of zero
ClockBytes == 18      \* transitions in the clock file read by main

(***************************************************************************)
(* Generic helpers.                                                        *)
(***************************************************************************)
Min(a, b) == IF a <= b THEN a ELSE b

RECURSIVE BitAnd(_, _)
BitAnd(a, b) ==
    IF a = 0 \/ b = 0 THEN 0
    ELSE (a % 2) * (b % 2) + 2 * BitAnd(a \div 2, b \div 2)

RECURSIVE BitOr(_, _)
BitOr(a, b) ==
    IF a = 0 THEN b
    ELSE IF b = 0 THEN a
    ELSE (IF (a % 2) + (b % 2) > 0 THEN 1 ELSE 0) + 2 * BitOr(a \div 2, b \div 2)

None == <<>>
Some(v) == <<v>>

At(s, k) == s[k + 1]

IdlePkt ==
    /\ transactions = <<>> /\ i = 0 /\ packets = <<>> /\ pc = "idle"
    /\ consumed = <<>> /\ labels = <<>>

IdleParse ==
    /\ data = <<>> /\ offset = 0 /\ timestamp = 0 /\ current_state = 0
    /\ transition_count = 0 /\ channel = <<>> /\ ppc = "idle"

IdleSpi ==
    /\ mosi = <<>> /\ miso = <<>> /\ sclk = <<>> /\ cs = <<>>
    /\ cs_low_periods = <<>> /\ period_num = 0 /\ bytes_decoded = <<>>
    /\ v2_transactions = <<>> /\ cs_active_periods = <<>> /\ dec_period = 0
    /\ dec_transactions = <<>> /\ sample_rate = 1 /\ spc = "idle"

IdleCall == q_in = <<>> /\ q_out = <<>> /\ qpc = "idle"

IdleRerun == run = 0 /\ first_run = <<>>

IdleMain ==
    /\ tool = "none" /\ files = <<>> /\ loaded = <<>> /\ bus = <<>> /\ mpc = "idle"

IdleAux == IdleCall /\ IdleRerun /\ IdleMain

(***************************************************************************)
(* parse_spi_csv.py: tables and extract_packets.                           *)
(***************************************************************************)
MAX_PACKET == 64

\* keys of CC110L_REGISTERS: 0x00-0x2E and 0x30-0x3B
CC110L_REGISTERS == (0 .. 46) \cup (48 .. 59)

\* keys of CC110L_STROBES: 0x30-0x36 and 0x38-0x3D
CC110L_STROBES == (48 .. 54) \cup (56 .. 61)

SPITransaction(t, mo, mi) == [time |-> t, mosi |-> mo, miso |-> mi]

Packet(t, dir, bytes, r, l) ==
    [time |-> t, direction |-> dir, data |-> bytes, rssi |-> r, lqi |-> l]

IsTxFifo(cmd) == cmd = 127 \/ cmd = 63
IsRxFifo(cmd) == cmd = 255 \/ cmd = 191
IsRegister(cmd) == BitAnd(cmd, 63) \in CC110L_REGISTERS
IsStrobe(cmd) == cmd \in CC110L_STROBES

PayloadByte(t, dir) == IF dir = "TX" THEN t.mosi ELSE t.miso

\* for _ in range(min(length, 64)): if i + 1 < len(transactions): i += 1; append
RECURSIVE BurstLoop(_, _, _, _, _)
BurstLoop(txs, idx, bytes, remaining, dir) ==
    IF remaining = 0 THEN [idx |-> idx, data |-> bytes]
    ELSE IF idx + 1 < Len(txs)
         THEN BurstLoop(txs, idx + 1,
                        Append(bytes, PayloadByte(At(txs, idx + 1), dir)),
                        remaining - 1, dir)
         ELSE BurstLoop(txs, idx, bytes, remaining - 1, dir)

\* ReadBurst with the ceiling off by one, min(length, 65) (mutant)
ReadBurstCeilingOffByOne(txs, idx, dir) ==
    LET length == PayloadByte(At(txs, idx + 1), dir)
    IN  BurstLoop(txs, idx + 1, <<length>>, Min(length, MAX_PACKET + 1), dir)

\* The burst body entered when i + 1 < len(transactions): length byte, then payload.
ReadBurst(txs, idx, dir) ==
    LET length == PayloadByte(At(txs, idx + 1), dir)
    IN  BurstLoop(txs, idx + 1, <<length>>, Min(length, MAX_PACKET), dir)

\* history entries for the transactions a burst reads: length, then payload bytes
BurstRoles(first, last) ==
    [k \in 1 .. (last - first + 1) |->
        [idx |-> first + k - 1, role |-> IF k = 1 THEN "length" ELSE "payload"]]

SignedRssiRaw(rssi_raw) == IF rssi_raw > 127 THEN rssi_raw - 256 ELSE rssi_raw

\* rssi = (rssi_raw / 2) - 74, kept as 2 * rssi
RssiTimes2(rssi_raw) == SignedRssiRaw(rssi_raw) - 148

Lqi(lqi_raw) == BitAnd(lqi_raw, 127)

CrcOk(lqi_raw) == BitAnd(lqi_raw, 128) # 0

HasMetrics(packet_data) == Len(packet_data) >= 2

RxRssi(packet_data) ==
    IF HasMetrics(packet_data)
    THEN Some(RssiTimes2(packet_data[Len(packet_data) - 1]))
    ELSE None

RxLqi(packet_data) ==
    IF HasMetrics(packet_data)
    THEN Some(Lqi(packet_data[Len(packet_data)]))
    ELSE None

\* The print after an RX packet formats rssi with ":.1f"; None raises TypeError.
RxPrintRaises(packet_data) == RxRssi(packet_data) = None

TxFifoWrite ==
    /\ pc = "loop" /\ i < Len(transactions)
    /\ IsTxFifo(At(transactions, i).mosi)
    /\ IF i + 1 < Len(transactions)
       THEN LET b == ReadBurst(transactions, i, "TX")
            IN  /\ packets' = Append(packets,
                       Packet(At(transactions, i).time, "TX", b.data, None, None))
                /\ consumed' = consumed \o <<[idx |-> i, role |-> "cmd"]>>
                                        \o BurstRoles(i + 1, b.idx)
                /\ i' = b.idx + 1
       ELSE /\ packets' = packets
            /\ consumed' = Append(consumed, [idx |-> i, role |-> "cmd"])
            /\ i' = i + 1
    /\ UNCHANGED <<transactions, pc, labels, parseVars, spiVars, auxVars>>

RxFifoRead ==
    /\ pc = "loop" /\ i < Len(transactions)
    /\ ~IsTxFifo(At(transactions, i).mosi)
    /\ IsRxFifo(At(transactions, i).mosi)
    /\ IF i + 1 < Len(transactions)
       THEN LET b == ReadBurst(transactions, i, "RX")
            IN  /\ packets' = Append(packets,
                       Packet(At(transactions, i).time, "RX", b.data,
                              RxRssi(b.data), RxLqi(b.data)))
                /\ consumed' = consumed \o <<[idx |-> i, role |-> "cmd"]>>
                                        \o BurstRoles(i + 1, b.idx)
                /\ IF RxPrintRaises(b.data)
                   THEN i' = b.idx /\ pc' = "raised"
                   ELSE i' = b.idx + 1 /\ pc' = pc
       ELSE /\ packets' = packets
            /\ consumed' = Append(consumed, [idx |-> i, role |-> "cmd"])
            /\ i' = i + 1
            /\ pc' = pc
    /\ UNCHANGED <<transactions, labels, parseVars, spiVars, auxVars>>

\* the register branch without its data phase: only the command byte is
\* consumed (mutant)
RegisterOpWithoutDataPhase ==
    /\ pc = "loop" /\ i < Len(transactions)
    /\ ~IsTxFifo(At(transactions, i).mosi)
    /\ ~IsRxFifo(At(transactions, i).mosi)
    /\ IsRegister(At(transactions, i).mosi)
    /\ consumed' = Append(consumed, [idx |-> i, role |-> "cmd"])
    /\ i' = i + 1
    /\ UNCHANGED <<transactions, packets, pc, labels, parseVars, spiVars, auxVars>>

RegisterOp ==
    /\ pc = "loop" /\ i < Len(transactions)
    /\ ~IsTxFifo(At(transactions, i).mosi)
    /\ ~IsRxFifo(At(transactions, i).mosi)
    /\ IsRegister(At(transactions, i).mosi)
    /\ IF i + 1 < Len(transactions)
       THEN /\ consumed' = consumed \o <<[idx |-> i, role |-> "cmd"],
                                         [idx |-> i + 1, role |-> "data"]>>
            /\ i' = i + 2
       ELSE /\ consumed' = Append(consumed, [idx |-> i, role |-> "cmd"])
            /\ i' = i + 1
    /\ UNCHANGED <<transactions, packets, pc, labels, parseVars, spiVars, auxVars>>

Strobe ==
    /\ pc = "loop" /\ i < Len(transactions)
    /\ ~IsTxFifo(At(transactions, i).mosi)
    /\ ~IsRxFifo(At(transactions, i).mosi)
    /\ ~IsRegister(At(transactions, i).mosi)
    /\ IsStrobe(At(transactions, i).mosi)
    /\ consumed' = Append(consumed, [idx |-> i, role |-> "cmd"])
    /\ i' = i + 1
    /\ UNCHANGED <<transactions, packets, pc, labels, parseVars, spiVars, auxVars>>

UnknownCmd ==
    /\ pc = "loop" /\ i < Len(transactions)
    /\ ~IsTxFifo(At(transactions, i).mosi)
    /\ ~IsRxFifo(At(transactions, i).mosi)
    /\ ~IsRegister(At(transactions, i).mosi)
    /\ ~IsStrobe(At(transactions, i).mosi)
    /\ consumed' = Append(consumed, [idx |-> i, role |-> "cmd"])
    /\ i' = i + 1
    /\ UNCHANGED <<transactions, packets, pc, labels, parseVars, spiVars, auxVars>>

ReturnPackets ==
    /\ pc = "loop" /\ ~(i < Len(transactions))
    /\ pc' = "done"
    /\ UNCHANGED <<transactions, i, packets, consumed, labels, parseVars, spiVars, auxVars>>

(***************************************************************************)
(* saleae_parser_v2.py: analyze_cc110_commands.                            *)
(***************************************************************************)
AnalyzeLimit == 100

\* keys of reg_names: 0x00-0x2E, 0x30-0x3F and 0xBF
RegNames == (0 .. 46) \cup (48 .. 63) \cup {191}

\* keys of strobe_names: 0x30-0x36 and 0x38-0x3D
StrobeNames == (48 .. 54) \cup (56 .. 61)

\* One output line: cmd_type, burst_str and which table named the byte.
CommandLabel(mosi_byte) ==
    LET is_read == BitAnd(mosi_byte, 128) # 0
        is_burst == BitAnd(mosi_byte, 64) # 0
        address == BitAnd(mosi_byte, 63)
        cmd_type == IF is_read THEN "READ " ELSE "WRITE"
        burst_str == IF is_burst THEN " BURST" ELSE ""
    IN  IF address \in RegNames
        THEN [cmd_type |-> cmd_type, burst_str |-> burst_str, table |-> "reg_names"]
        ELSE IF mosi_byte \in StrobeNames
        THEN [cmd_type |-> "STROBE", burst_str |-> "", table |-> "strobe_names"]
        ELSE [cmd_type |-> cmd_type, burst_str |-> burst_str, table |-> "hex"]

AnalyzeCc110Commands ==
    /\ pc \in {"loop", "done", "raised"}
    /\ labels = <<>>
    /\ Len(transactions) > 0
    /\ labels' = [k \in 1 .. Min(AnalyzeLimit, Len(transactions)) |->
                     CommandLabel(transactions[k].mosi)]
    /\ UNCHANGED <<transactions, i, packets, pc, consumed, parseVars, spiVars, auxVars>>

(***************************************************************************)
(* Inputs of the interpreter: transaction sequences.                       *)
(***************************************************************************)
\* (mosi, miso) byte pairs the short sequences are built from
PairAlphabet ==
    { <<63, 0>>,      \* 0x3F TX FIFO; as a length byte 63 (TX) / 0 (RX)
      <<191, 2>>,     \* 0xBF RX FIFO; RX length 2
      <<255, 1>>,     \* 0xFF RX FIFO burst; RX length 1
      <<52, 16>>,     \* 0x34 SRX strobe value, also a register key; RSSI raw 0x10
      <<61, 156>>,    \* 0x3D SNOP strobe value, no register key; LQI raw 0x9C
      <<2, 200>>,     \* 0x02 IOCFG0 write; TX length 2; RSSI raw > 127
      <<47, 3>>,      \* 0x2F: no register, no strobe
      <<1, 100>> }    \* 0x01 IOCFG1 write; TX length 1

RECURSIVE SeqsOver(_, _)
SeqsOver(S, n) ==
    IF n = 0 THEN {<<>>}
    ELSE LET shorter == SeqsOver(S, n - 1)
         IN  shorter \cup {Append(s, x) : s \in {t \in shorter : Len(t) = n - 1}, x \in S}

ShortInputs ==
    {[k \in 1 .. Len(s) |-> SPITransaction(k, s[k][1], s[k][2])] :
        s \in SeqsOver(PairAlphabet, MaxTx)}

\* A burst header with a long declared length, followed by n patterned bytes.
LongInput(cmd, length, n) ==
    [k \in 1 .. (n + 2) |->
        IF k = 1 THEN SPITransaction(1, cmd, 0)
        ELSE IF k = 2 THEN SPITransaction(2, length, length)
        ELSE SPITransaction(k, (3 * k + 1) % 256, (5 * k + 2) % 256)]

LongInputs ==
    {LongInput(cmd, length, n) :
        cmd \in {63, 127, 191, 255},
        length \in {MAX_PACKET - 1, MAX_PACKET, MAX_PACKET + 1, 255},
        n \in (MAX_PACKET - 2) .. MaxLongPayload}

InitPkt ==
    /\ transactions \in ShortInputs \cup LongInputs
    /\ i = 0
    /\ packets = <<>>
    /\ pc = "loop"
    /\ consumed = <<>>
    /\ labels = <<>>
    /\ IdleParse /\ IdleSpi /\ IdleAux

NextPkt ==
    \/ TxFifoWrite
    \/ RxFifoRead
    \/ RegisterOp
    \/ Strobe
    \/ UnknownCmd
    \/ ReturnPackets
    \/ AnalyzeCc110Commands

SpecPkt == InitPkt /\ [][NextPkt]_vars

(***************************************************************************)
(* extract_packets called twice in a row on the same list object.          *)
(***************************************************************************)
InitTwice ==
    /\ transactions \in ShortInputs \cup LongInputs
    /\ i = 0
    /\ packets = <<>>
    /\ pc = "loop"
    /\ consumed = <<>>
    /\ labels = <<>>
    /\ run = 1
    /\ first_run = [transactions |-> transactions, packets |-> <<>>, pc |-> "loop"]
    /\ IdleParse /\ IdleSpi /\ IdleCall /\ IdleMain

\* the second call entered with the caller keeping the first list it got back
\* and passing it in again, as if packets were not created anew (mutant)
CallAgainKeepsPackets ==
    /\ run = 1 /\ pc \in {"done", "raised"}
    /\ first_run' = [first_run EXCEPT !.packets = packets, !.pc = pc]
    /\ run' = 2
    /\ packets' = packets
    /\ i' = 0
    /\ consumed' = <<>>
    /\ pc' = "loop"
    /\ UNCHANGED <<transactions, labels, parseVars, spiVars, callVars, mainVars>>

\* The first call has ended; the second is entered: "packets = []", "i = 0".
CallAgain ==
    /\ run = 1 /\ pc \in {"done", "raised"}
    /\ first_run' = [first_run EXCEPT !.packets = packets, !.pc = pc]
    /\ run' = 2
    /\ packets' = <<>>
    /\ i' = 0
    /\ consumed' = <<>>
    /\ pc' = "loop"
    /\ UNCHANGED <<transactions, labels, parseVars, spiVars, callVars, mainVars>>

NextTwice ==
    \/ TxFifoWrite
    \/ RxFifoRead
    \/ RegisterOp
    \/ Strobe
    \/ UnknownCmd
    \/ ReturnPackets
    \/ CallAgain

SpecTwice == InitTwice /\ [][NextTwice]_vars

(***************************************************************************)
(* saleae_parser_v2.py: read_varint and parse_digital_channel_simple.      *)
(***************************************************************************)
RECURSIVE Pow2(_)
Pow2(n) == IF n = 0 THEN 1 ELSE 2 * Pow2(n - 1)

\* x << n
ShiftLeft(x, n) == x * Pow2(n)

\* the while loop of read_varint, entered with the locals value, shift, bytes_consumed
RECURSIVE VarintLoop(_, _, _, _, _)
VarintLoop(buf, off, value, shift, bytes_consumed) ==
    IF off + bytes_consumed < Len(buf)
    THEN LET byte == At(buf, off + bytes_consumed)
             value2 == BitOr(value, ShiftLeft(BitAnd(byte, 127), shift))
         IN  IF BitAnd(byte, 128) = 0
             THEN [value |-> value2, bytes_consumed |-> bytes_consumed + 1]
             ELSE VarintLoop(buf, off, value2, shift + 7, bytes_consumed + 1)
    ELSE [value |-> value, bytes_consumed |-> bytes_consumed]

\* read_varint without the "high bit clear ends the integer" test: it reads on
\* through the terminating byte (mutant)
RECURSIVE VarintLoopNoStop(_, _, _, _, _)
VarintLoopNoStop(buf, off, value, shift, bytes_consumed) ==
    IF off + bytes_consumed < Len(buf)
    THEN LET byte == At(buf, off + bytes_consumed)
             value2 == BitOr(value, ShiftLeft(BitAnd(byte, 127), shift))
         IN  VarintLoopNoStop(buf, off, value2, shift + 7, bytes_consumed + 1)
    ELSE [value |-> value, bytes_consumed |-> bytes_consumed]

ReadVarintNoStop(buf, off) == VarintLoopNoStop(buf, off, 0, 0, 0)

ReadVarint(buf, off) == VarintLoop(buf, off, 0, 0, 0)

\* parse_saleae.py, SaleaeParser.decode_variable_length_int: the same loop with
\* the counter named bytes_read
DecodeVariableLengthInt(buf, off) == VarintLoop(buf, off, 0, 0, 0)

\* b'<SALEAE>'
Magic == <<60, 83, 65, 76, 69, 65, 69, 62>>

MagicLen == 8
HeaderFieldsLen == 12   \* version, length, type: three '<I' fields
MetadataSkip == 20      \* offset += 20
SafetyLimit == 100000   \* if transition_count > 100000: break

\* data.startswith(b'<SALEAE>')
StartsWithMagic(buf) ==
    /\ Len(buf) >= MagicLen
    /\ SubSeq(buf, 1, MagicLen) = Magic

\* struct.unpack_from('<I', data, off) raises struct.error when fewer than
\* four bytes remain at off
UnpackRaises(buf, off) == Len(buf) - off < 4

\* The function up to the decode loop: magic test, three header fields, skip.
\* version, length_field and type_field are read and never used.
ParseHeader ==
    /\ ppc = "start"
    /\ IF ~StartsWithMagic(data)
       THEN ppc' = "returned" /\ offset' = offset
       ELSE IF \/ UnpackRaises(data, MagicLen)
               \/ UnpackRaises(data, MagicLen + 4)
               \/ UnpackRaises(data, MagicLen + 8)
       THEN ppc' = "raised" /\ offset' = MagicLen
       ELSE /\ ppc' = "loop"
            /\ offset' = MagicLen + HeaderFieldsLen + MetadataSkip
    /\ UNCHANGED <<data, timestamp, current_state, transition_count, channel,
                   pktVars, spiVars, auxVars>>

\* the loop body with "timestamp = delta" in place of "timestamp += delta"
\* (mutant)
DecodeStepForgetsTimestamp(limit) ==
    /\ ppc = "loop" /\ offset < Len(data)
    /\ LET v == ReadVarint(data, offset)
       IN  IF v.bytes_consumed = 0
           THEN /\ ppc' = "returned"
                /\ UNCHANGED <<offset, timestamp, current_state, transition_count,
                               channel>>
           ELSE /\ offset' = offset + v.bytes_consumed
                /\ timestamp' = v.value
                /\ current_state' = 1 - current_state
                /\ channel' = Append(channel, <<v.value, 1 - current_state>>)
                /\ transition_count' = transition_count + 1
                /\ ppc' = IF transition_count + 1 > limit
                          THEN "returned" ELSE "loop"
    /\ UNCHANGED <<data, pktVars, spiVars, auxVars>>

\* the loop body appending the running level before it is toggled (mutant)
DecodeStepAppendsBeforeToggle(limit) ==
    /\ ppc = "loop" /\ offset < Len(data)
    /\ LET v == ReadVarint(data, offset)
       IN  IF v.bytes_consumed = 0
           THEN /\ ppc' = "returned"
                /\ UNCHANGED <<offset, timestamp, current_state, transition_count,
                               channel>>
           ELSE /\ offset' = offset + v.bytes_consumed
                /\ timestamp' = timestamp + v.value
                /\ current_state' = 1 - current_state
                /\ channel' = Append(channel, <<timestamp + v.value, current_state>>)
                /\ transition_count' = transition_count + 1
                /\ ppc' = IF transition_count + 1 > limit
                          THEN "returned" ELSE "loop"
    /\ UNCHANGED <<data, pktVars, spiVars, auxVars>>

\* One iteration of "while offset < len(data)", the literal of
\* "if transition_count > 100000: break" being the parameter.
DecodeStepUpTo(limit) ==
    /\ ppc = "loop" /\ offset < Len(data)
    /\ LET v == ReadVarint(data, offset)
       IN  IF v.bytes_consumed = 0
           THEN /\ ppc' = "returned"
                /\ UNCHANGED <<offset, timestamp, current_state, transition_count,
                               channel>>
           ELSE /\ offset' = offset + v.bytes_consumed
                /\ timestamp' = timestamp + v.value
                /\ current_state' = 1 - current_state
                /\ channel' = Append(channel, <<timestamp + v.value, 1 - current_state>>)
                /\ transition_count' = transition_count + 1
                /\ ppc' = IF transition_count + 1 > limit
                          THEN "returned" ELSE "loop"
    /\ UNCHANGED <<data, pktVars, spiVars, auxVars>>

DecodeStep == DecodeStepUpTo(SafetyLimit)

\* The loop condition fails: return channel.
ReturnChannel ==
    /\ ppc = "loop" /\ ~(offset < Len(data))
    /\ ppc' = "returned"
    /\ UNCHANGED <<data, offset, timestamp, current_state, transition_count,
                   channel, pktVars, spiVars, auxVars>>

(***************************************************************************)
(* Inputs of the decoder: capture files.                                   *)
(***************************************************************************)
\* payload bytes: three that end a varint, three with the continuation bit
PayloadBytes == {0, 1, 5, 128, 129, 131}

Zeros(n) == [k \in 1 .. n |-> 0]

FullHeader == Magic \o Zeros(HeaderFieldsLen + MetadataSkip)

\* well-formed header followed by a payload
CompleteFiles == {FullHeader \o p : p \in SeqsOver(PayloadBytes, MaxPayload)}

\* the magic followed by a header or metadata region cut short
CutFiles ==
    {SubSeq(FullHeader, 1, n) : n \in MagicLen .. (Len(FullHeader) - 1)}

\* no magic: an empty file, a file shorter than the magic, a wrong magic byte
BadMagicFiles ==
    {<<>>, SubSeq(Magic, 1, MagicLen - 1)}
    \cup {[FullHeader EXCEPT ![k] = 0] \o p :
            k \in {1, MagicLen}, p \in SeqsOver(PayloadBytes, 1)}

InitParse ==
    /\ data \in CompleteFiles \cup CutFiles \cup BadMagicFiles
    /\ offset = 0
    /\ timestamp = 0
    /\ current_state = 0
    /\ transition_count = 0
    /\ channel = <<>>
    /\ ppc = "start"
    /\ IdlePkt /\ IdleSpi /\ IdleAux

NextParse ==
    \/ ParseHeader
    \/ DecodeStep
    \/ ReturnChannel

SpecParse == InitParse /\ [][NextParse]_vars

(***************************************************************************)
(* parse_digital_channel_simple run up to its safety limit.  Reaching the  *)
(* limit of the code takes a file of 100001 varints; the loop uses the     *)
(* limit in the one comparison "transition_count > limit", so the same     *)
(* loop is run here with the limit scaled down to SmallLimit.              *)
(***************************************************************************)
InitCeiling ==
    /\ data \in {FullHeader \o p : p \in SeqsOver({0, 1, 129}, SmallLimit + 2)}
    /\ offset = 0
    /\ timestamp = 0
    /\ current_state = 0
    /\ transition_count = 0
    /\ channel = <<>>
    /\ ppc = "start"
    /\ IdlePkt /\ IdleSpi /\ IdleAux

DecodeStepSmallLimit == DecodeStepUpTo(SmallLimit)

NextCeiling ==
    \/ ParseHeader
    \/ DecodeStepSmallLimit
    \/ ReturnChannel

SpecCeiling == InitCeiling /\ [][NextCeiling]_vars

(***************************************************************************)
(* Signal timelines: DigitalChannel.get_state_at (saleae_parser_v2.py) and *)
(* SPIDecoder.get_state_at_time (parse_saleae.py).  A transition is        *)
(* <<timestamp, state>>.                                                   *)
(***************************************************************************)
Ts(tr) == tr[1]
St(tr) == tr[2]

\* the scan breaking at "ts >= timestamp" instead of "ts > timestamp" (mutant)
RECURSIVE StateScanBreaksAtEqual(_, _, _, _)
StateScanBreaksAtEqual(tl, k, t, state) ==
    IF k > Len(tl) THEN state
    ELSE IF Ts(tl[k]) >= t THEN state
    ELSE StateScanBreaksAtEqual(tl, k + 1, t, St(tl[k]))

\* for ts, st in transitions: if ts > timestamp: break; state = st
RECURSIVE StateScan(_, _, _, _)
StateScan(tl, k, t, state) ==
    IF k > Len(tl) THEN state
    ELSE IF Ts(tl[k]) > t THEN state
    ELSE StateScan(tl, k + 1, t, St(tl[k]))

GetStateAt(tl, t) == StateScan(tl, 1, t, 0)

GetStateAtTime(tl, t) == StateScan(tl, 1, t, 0)

(***************************************************************************)
(* saleae_parser_v2.py: decode_spi_bytes.                                  *)
(***************************************************************************)
V2PeriodLimit == 20     \* cs_low_periods[:20]
BitsPerByte == 8

\* "if cs_start:" is Python truthiness: None and 0 are both false
Truthy(opt) == opt # None /\ opt[1] # 0

\* The first loop: windows from the select timeline.
RECURSIVE V2PeriodsLoop(_, _, _, _, _)
V2PeriodsLoop(tl, k, cs_state, cs_start, periods) ==
    IF k > Len(tl) THEN periods
    ELSE IF St(tl[k]) = 0 /\ cs_state = 1
         THEN V2PeriodsLoop(tl, k + 1, 0, Some(Ts(tl[k])), periods)
    ELSE IF St(tl[k]) = 1 /\ cs_state = 0
         THEN V2PeriodsLoop(tl, k + 1, 1, cs_start,
                            IF Truthy(cs_start)
                            THEN Append(periods, <<cs_start[1], Ts(tl[k])>>)
                            ELSE periods)
    ELSE V2PeriodsLoop(tl, k + 1, cs_state, cs_start, periods)

V2FindCsLowPeriods(tl) == V2PeriodsLoop(tl, 1, 1, None, <<>>)

IsRisingIn(tr, cs_start, cs_end) ==
    cs_start <= Ts(tr) /\ Ts(tr) <= cs_end /\ St(tr) = 1

\* the edge list leaving out an edge on the opening timestamp:
\* cs_start < ts <= cs_end (mutant)
V2ClockEdgesAfterStart(clk, cs_start, cs_end) ==
    LET rising == SelectSeq(clk, LAMBDA tr :
                      cs_start < Ts(tr) /\ Ts(tr) <= cs_end /\ St(tr) = 1)
    IN  [k \in 1 .. Len(rising) |-> Ts(rising[k])]

\* [ts for ts, state in sclk.transitions if cs_start <= ts <= cs_end and state == 1]
V2ClockEdges(clk, cs_start, cs_end) ==
    LET rising == SelectSeq(clk, LAMBDA tr : IsRisingIn(tr, cs_start, cs_end))
    IN  [k \in 1 .. Len(rising) |-> Ts(rising[k])]

\* (byte << 1) | bit
ShiftIn(byte, bit) == BitOr(ShiftLeft(byte, 1), bit)

\* ShiftIn filling from the least significant bit (mutant)
RECURSIVE V2BytesLoopLsbFirst(_, _, _, _, _, _, _, _)
V2BytesLoopLsbFirst(out, in, edges, k, mosi_byte, miso_byte, bit_count, decoded) ==
    IF k > Len(edges) THEN decoded
    ELSE LET mo == mosi_byte + ShiftLeft(GetStateAt(out, edges[k]), bit_count)
             mi == miso_byte + ShiftLeft(GetStateAt(in, edges[k]), bit_count)
         IN  IF bit_count + 1 = BitsPerByte
             THEN V2BytesLoopLsbFirst(out, in, edges, k + 1, 0, 0, 0,
                                      Append(decoded, <<edges[k], mo, mi>>))
             ELSE V2BytesLoopLsbFirst(out, in, edges, k + 1, mo, mi, bit_count + 1,
                                      decoded)

\* for edge_ts in clock_edges: sample, shift in, emit every 8th bit
RECURSIVE V2BytesLoop(_, _, _, _, _, _, _, _)
V2BytesLoop(out, in, edges, k, mosi_byte, miso_byte, bit_count, decoded) ==
    IF k > Len(edges) THEN decoded
    ELSE LET mo == ShiftIn(mosi_byte, GetStateAt(out, edges[k]))
             mi == ShiftIn(miso_byte, GetStateAt(in, edges[k]))
         IN  IF bit_count + 1 = BitsPerByte
             THEN V2BytesLoop(out, in, edges, k + 1, 0, 0, 0,
                              Append(decoded, <<edges[k], mo, mi>>))
             ELSE V2BytesLoop(out, in, edges, k + 1, mo, mi, bit_count + 1, decoded)

V2DecodeBytesLsbFirst(out, in, edges) ==
    V2BytesLoopLsbFirst(out, in, edges, 1, 0, 0, 0, <<>>)

V2DecodeBytes(out, in, edges) == V2BytesLoop(out, in, edges, 1, 0, 0, 0, <<>>)

\* cs_low_periods[:20]
V2Handled(periods) == Min(Len(periods), V2PeriodLimit)

V2FindPeriods ==
    /\ spc = "v2_find"
    /\ cs_low_periods' = V2FindCsLowPeriods(cs)
    /\ spc' = "v2_bytes"
    /\ UNCHANGED <<mosi, miso, sclk, cs, period_num, bytes_decoded, v2_transactions,
                   cs_active_periods, dec_period, dec_transactions, sample_rate,
                   pktVars, parseVars, auxVars>>

\* the loop body putting the bytes of a window in front of the list (mutant)
V2PeriodPrepends ==
    /\ spc = "v2_bytes" /\ period_num < V2Handled(cs_low_periods)
    /\ LET period == cs_low_periods[period_num + 1]
           clock_edges == V2ClockEdges(sclk, period[1], period[2])
       IN  IF Len(clock_edges) < BitsPerByte
           THEN UNCHANGED <<bytes_decoded, v2_transactions>>
           ELSE /\ bytes_decoded' = V2DecodeBytes(mosi, miso, clock_edges)
                /\ v2_transactions' =
                       V2DecodeBytes(mosi, miso, clock_edges) \o v2_transactions
    /\ period_num' = period_num + 1
    /\ UNCHANGED <<mosi, miso, sclk, cs, cs_low_periods, cs_active_periods,
                   dec_period, dec_transactions, sample_rate, spc, pktVars, parseVars, auxVars>>

\* One iteration of the loop over cs_low_periods[:20].
V2Period ==
    /\ spc = "v2_bytes" /\ period_num < V2Handled(cs_low_periods)
    /\ LET period == cs_low_periods[period_num + 1]
           clock_edges == V2ClockEdges(sclk, period[1], period[2])
       IN  IF Len(clock_edges) < BitsPerByte
           THEN UNCHANGED <<bytes_decoded, v2_transactions>>
           ELSE /\ bytes_decoded' = V2DecodeBytes(mosi, miso, clock_edges)
                /\ v2_transactions' =
                       v2_transactions \o V2DecodeBytes(mosi, miso, clock_edges)
    /\ period_num' = period_num + 1
    /\ UNCHANGED <<mosi, miso, sclk, cs, cs_low_periods, cs_active_periods,
                   dec_period, dec_transactions, sample_rate, spc, pktVars, parseVars, auxVars>>

V2Return ==
    /\ spc = "v2_bytes" /\ ~(period_num < V2Handled(cs_low_periods))
    /\ spc' = "dec_find"
    /\ UNCHANGED <<mosi, miso, sclk, cs, cs_low_periods, period_num, bytes_decoded,
                   v2_transactions, cs_active_periods, dec_period, dec_transactions,
                   sample_rate, pktVars, parseVars, auxVars>>

(***************************************************************************)
(* parse_saleae.py: SPIDecoder.decode, run on the same four timelines.     *)
(***************************************************************************)
DecPeriodLimit == 10    \* cs_active_periods[:10]

\* Transition.time_seconds: timestamp / sample_rate, kept as the exact fraction
TimeSeconds(ts, rate) == [samples |-> ts, per_second |-> rate]

RECURSIVE DecPeriodsLoop(_, _, _, _, _)
DecPeriodsLoop(tl, k, cs_state, cs_start, periods) ==
    IF k > Len(tl) THEN periods
    ELSE IF St(tl[k]) = 0 /\ cs_state = 1
         THEN DecPeriodsLoop(tl, k + 1, 0, Some(Ts(tl[k])), periods)
    ELSE IF St(tl[k]) = 1 /\ cs_state = 0
         THEN DecPeriodsLoop(tl, k + 1, 1, cs_start,
                             IF cs_start # None
                             THEN Append(periods, <<cs_start[1], Ts(tl[k])>>)
                             ELSE periods)
    ELSE DecPeriodsLoop(tl, k + 1, cs_state, cs_start, periods)

DecFindCsActivePeriods(tl) == DecPeriodsLoop(tl, 1, 1, None, <<>>)

\* [t for t in self.sclk if cs_start <= t.timestamp <= cs_end and t.state == 1]
DecClockEdges(clk, cs_start, cs_end) ==
    LET rising == SelectSeq(clk, LAMBDA tr : IsRisingIn(tr, cs_start, cs_end))
    IN  [k \in 1 .. Len(rising) |-> Ts(rising[k])]

RECURSIVE DecBytesLoop(_, _, _, _, _, _, _, _, _)
DecBytesLoop(out, in, edges, rate, k, mosi_byte, miso_byte, bit_count, decoded) ==
    IF k > Len(edges) THEN decoded
    ELSE LET mo == ShiftIn(mosi_byte, GetStateAtTime(out, edges[k]))
             mi == ShiftIn(miso_byte, GetStateAtTime(in, edges[k]))
         IN  IF bit_count + 1 = BitsPerByte
             THEN DecBytesLoop(out, in, edges, rate, k + 1, 0, 0, 0,
                               Append(decoded, <<TimeSeconds(edges[k], rate), mo, mi>>))
             ELSE DecBytesLoop(out, in, edges, rate, k + 1, mo, mi, bit_count + 1,
                               decoded)

DecDecodeBytes(out, in, edges, rate) ==
    DecBytesLoop(out, in, edges, rate, 1, 0, 0, 0, <<>>)

\* cs_active_periods[:10]
DecHandled(periods) == Min(Len(periods), DecPeriodLimit)

DecFindPeriods ==
    /\ spc = "dec_find"
    /\ cs_active_periods' = DecFindCsActivePeriods(cs)
    /\ spc' = "dec_bytes"
    /\ UNCHANGED <<mosi, miso, sclk, cs, cs_low_periods, period_num, bytes_decoded,
                   v2_transactions, dec_period, dec_transactions, sample_rate,
                   pktVars, parseVars, auxVars>>

\* One iteration of the loop over cs_active_periods[:10]; a window without
\* clock edges is skipped, which appends nothing either way.
DecPeriod ==
    /\ spc = "dec_bytes" /\ dec_period < DecHandled(cs_active_periods)
    /\ LET period == cs_active_periods[dec_period + 1]
           clock_edges == DecClockEdges(sclk, period[1], period[2])
       IN  IF Len(clock_edges) = 0
           THEN UNCHANGED dec_transactions
           ELSE dec_transactions' =
                    dec_transactions
                        \o DecDecodeBytes(mosi, miso, clock_edges, sample_rate)
    /\ dec_period' = dec_period + 1
    /\ UNCHANGED <<mosi, miso, sclk, cs, cs_low_periods, period_num, bytes_decoded,
                   v2_transactions, cs_active_periods, sample_rate, spc,
                   pktVars, parseVars, auxVars>>

DecReturn ==
    /\ spc = "dec_bytes" /\ ~(dec_period < DecHandled(cs_active_periods))
    /\ spc' = "done"
    /\ UNCHANGED <<mosi, miso, sclk, cs, cs_low_periods, period_num, bytes_decoded,
                   v2_transactions, cs_active_periods, dec_period, dec_transactions,
                   sample_rate, pktVars, parseVars, auxVars>>

(***************************************************************************)
(* Inputs of the reconstructor: four timelines.                            *)
(***************************************************************************)
\* A clock with a rising edge at every even sample and a falling edge at every
\* odd one, up to sample h.
FreeClock(h) == [k \in 1 .. (h + 1) |-> <<k - 1, 1 - ((k - 1) % 2)>>]

\* The same clock with ExtraPulses more pulses at sample 16, all stamped 16:
\* what the transition decoder gives for a run of zero time deltas.
BurstyClock(h) ==
    IF h < 16 THEN FreeClock(h)
    ELSE SubSeq(FreeClock(h), 1, 17)
           \o [k \in 1 .. (2 * ExtraPulses) |-> <<16, (k + 1) % 2>>]
           \o SubSeq(FreeClock(h), 18, h + 1)

\* Bit carried for the clock edge of sample t (t even), per shape.
PatternBit(shape, t) ==
    CASE shape = "low" -> 0
      [] shape = "high" -> 1
      [] shape = "alt" -> 1 - ((t \div 2) % 2)
      [] shape = "b4" -> <<1, 0, 1, 1, 0, 1, 0, 0>>[((t \div 2) % 8) + 1]

\* The data line changes on the falling clock edge before the rising edge that
\* samples it; the line is low before its first transition.
DataChangeAt(shape, t) ==
    IF t = 0 THEN PatternBit(shape, 0) = 1
    ELSE (t % 2 = 1) /\ PatternBit(shape, t + 1) # PatternBit(shape, t - 1)

DataLevelAfter(shape, t) ==
    IF t = 0 THEN PatternBit(shape, 0) ELSE PatternBit(shape, t + 1)

DataTimeline(shape, h) ==
    LET all == [k \in 1 .. (h + 1) |-> <<k - 1, DataLevelAfter(shape, k - 1)>>]
    IN  SelectSeq(all, LAMBDA tr : DataChangeAt(shape, Ts(tr)))

\* timestamps the freely chosen select timelines use
TimeGrid == {0, 2, 16, 47}

IsSorted(tl) == \A k \in 1 .. (Len(tl) - 1) : Ts(tl[k]) <= Ts(tl[k + 1])

SmallCs == {tl \in SeqsOver(TimeGrid \X {0, 1}, MaxCsLen) : IsSorted(tl)}

\* n windows [16w, 16w + 14], w = 1..n, each holding eight rising clock edges
RegularCs(n) ==
    [k \in 1 .. (2 * n) |->
        IF k % 2 = 1 THEN <<16 * ((k + 1) \div 2), 0>>
        ELSE <<16 * (k \div 2) + 14, 1>>]

\* the select timeline [(10,0),(50,1),(100,0),(140,1)]
ExampleCs == <<<<10, 0>>, <<50, 1>>, <<100, 0>>, <<140, 1>>>>

CsInputs ==
    SmallCs \cup {ExampleCs} \cup {RegularCs(n) : n \in (DecPeriodLimit - 1) .. MaxWindows}

\* last sample of a select timeline (0 when it is empty)
Horizon(tl) == IF Len(tl) = 0 THEN 0 ELSE Ts(tl[Len(tl)]) + 1

SampleRates == {4}

InitSpi ==
    /\ cs \in CsInputs
    /\ sclk \in {FreeClock(Horizon(cs))}
                 \cup (IF Len(cs) <= 4 THEN {BurstyClock(Horizon(cs))} ELSE {})
    /\ \E shape \in {"b4", "high", "low"} : mosi = DataTimeline(shape, Horizon(cs))
    /\ \E shape \in {"alt", "low"} : miso = DataTimeline(shape, Horizon(cs))
    /\ sample_rate \in SampleRates
    /\ cs_low_periods = <<>> /\ period_num = 0 /\ bytes_decoded = <<>>
    /\ v2_transactions = <<>> /\ cs_active_periods = <<>> /\ dec_period = 0
    /\ dec_transactions = <<>>
    /\ spc = "v2_find"
    /\ IdlePkt /\ IdleParse /\ IdleAux

NextSpi ==
    \/ V2FindPeriods
    \/ V2Period
    \/ V2Return
    \/ DecFindPeriods
    \/ DecPeriod
    \/ DecReturn

SpecSpi == InitSpi /\ [][NextSpi]_vars

(***************************************************************************)
(* main() of saleae_parser_v2.py and of parse_saleae.py: parse the files   *)
(* digital-2.bin (miso), digital-3.bin (mosi), digital-4.bin (sclk) and    *)
(* digital-5.bin (cs), test that all four lists are non-empty, decode.     *)
(* A file is [exists, bytes]; a parse gives [raised, transitions].         *)
(***************************************************************************)
Missing == [exists |-> FALSE, bytes |-> <<>>]
Existing(b) == [exists |-> TRUE, bytes |-> b]

Raised == [raised |-> TRUE, transitions |-> <<>>]
Returned(trs) == [raised |-> FALSE, transitions |-> trs]

\* the decode loop of parse_digital_channel_simple, run to its end
RECURSIVE DecodeLoop(_, _, _, _, _, _)
DecodeLoop(buf, off, ts, st, count, trs) ==
    IF ~(off < Len(buf)) THEN trs
    ELSE LET v == ReadVarint(buf, off)
         IN  IF v.bytes_consumed = 0 THEN trs
             ELSE LET trs2 == Append(trs, <<ts + v.value, 1 - st>>)
                  IN  IF count + 1 > SafetyLimit THEN trs2
                      ELSE DecodeLoop(buf, off + v.bytes_consumed, ts + v.value,
                                      1 - st, count + 1, trs2)

\* saleae_parser_v2.py: open() raises FileNotFoundError for a missing file,
\* struct.unpack_from raises struct.error in a header cut short
ParseDigitalChannelSimple(file) ==
    IF ~file.exists THEN Raised
    ELSE IF ~StartsWithMagic(file.bytes) THEN Returned(<<>>)
    ELSE IF \/ UnpackRaises(file.bytes, MagicLen)
            \/ UnpackRaises(file.bytes, MagicLen + 4)
            \/ UnpackRaises(file.bytes, MagicLen + 8)
    THEN Raised
    ELSE Returned(DecodeLoop(file.bytes, MagicLen + HeaderFieldsLen + MetadataSkip,
                             0, 0, 0, <<>>))

\* parse_saleae.py, SaleaeParser.parse_digital_channel: a missing file and a
\* wrong header return []; struct.unpack raises on a short read; the chunk
\* loop reads the rest of the file and appends nothing
SaleaeParseDigitalChannel(file) ==
    IF ~file.exists THEN Returned(<<>>)
    ELSE IF ~StartsWithMagic(file.bytes) THEN Returned(<<>>)
    ELSE IF Len(file.bytes) - MagicLen < HeaderFieldsLen THEN Raised
    ELSE Returned(<<>>)

\* decode_spi_bytes: the loop over cs_low_periods[:20], run to its end
RECURSIVE V2PeriodsToBytes(_, _, _, _, _, _)
V2PeriodsToBytes(out, in, clk, periods, k, txs) ==
    IF k > V2Handled(periods) THEN txs
    ELSE LET clock_edges == V2ClockEdges(clk, periods[k][1], periods[k][2])
         IN  V2PeriodsToBytes(out, in, clk, periods, k + 1,
                 IF Len(clock_edges) < BitsPerByte THEN txs
                 ELSE txs \o V2DecodeBytes(out, in, clock_edges))

DecodeSpiBytes(out, in, clk, sel) ==
    V2PeriodsToBytes(out, in, clk, V2FindCsLowPeriods(sel), 1, <<>>)

\* SPIDecoder.decode: the loop over cs_active_periods[:10], run to its end
RECURSIVE DecPeriodsToBytes(_, _, _, _, _, _, _)
DecPeriodsToBytes(out, in, clk, rate, periods, k, txs) ==
    IF k > DecHandled(periods) THEN txs
    ELSE LET clock_edges == DecClockEdges(clk, periods[k][1], periods[k][2])
         IN  DecPeriodsToBytes(out, in, clk, rate, periods, k + 1,
                 IF Len(clock_edges) = 0 THEN txs
                 ELSE txs \o DecDecodeBytes(out, in, clock_edges, rate))

SPIDecoderDecode(out, in, clk, sel, rate) ==
    DecPeriodsToBytes(out, in, clk, rate, DecFindCsActivePeriods(sel), 1, <<>>)

\* all([miso, mosi, sclk, cs]): every list is non-empty
AllLoaded(chs) == \A c \in 1 .. Len(chs) : chs[c] # <<>>

\* One of the four "parse_digital_channel_simple(...)" lines of main.
MainV2Parse ==
    /\ tool = "v2" /\ mpc = "parse" /\ Len(loaded) < 4
    /\ LET r == ParseDigitalChannelSimple(files[Len(loaded) + 1])
       IN  IF r.raised
           THEN mpc' = "raised" /\ loaded' = loaded
           ELSE mpc' = mpc /\ loaded' = Append(loaded, r.transitions)
    /\ UNCHANGED <<tool, files, bus, pktVars, parseVars, spiVars, callVars, rerunVars>>

\* if not all([...transitions]): print the error and return
MainV2Check ==
    /\ tool = "v2" /\ mpc = "parse" /\ Len(loaded) = 4
    /\ mpc' = IF AllLoaded(loaded) THEN "decode" ELSE "refused"
    /\ UNCHANGED <<tool, files, loaded, bus, pktVars, parseVars, spiVars, callVars,
                   rerunVars>>

\* transactions = decode_spi_bytes(mosi, miso, sclk, cs)
MainV2Decode ==
    /\ tool = "v2" /\ mpc = "decode"
    /\ bus' = DecodeSpiBytes(loaded[2], loaded[1], loaded[3], loaded[4])
    /\ mpc' = "done"
    /\ UNCHANGED <<tool, files, loaded, pktVars, parseVars, spiVars, callVars,
                   rerunVars>>

\* One of the four "parser.parse_digital_channel(n)" lines of main.
MainSaleaeParse ==
    /\ tool = "saleae" /\ mpc = "parse" /\ Len(loaded) < 4
    /\ LET r == SaleaeParseDigitalChannel(files[Len(loaded) + 1])
       IN  IF r.raised
           THEN mpc' = "raised" /\ loaded' = loaded
           ELSE mpc' = mpc /\ loaded' = Append(loaded, r.transitions)
    /\ UNCHANGED <<tool, files, bus, pktVars, parseVars, spiVars, callVars, rerunVars>>

\* if not all([miso, mosi, sclk, cs]): print the error and return; otherwise
\* SPIDecoder(mosi, miso, sclk, cs, parser.sample_rate).decode()
MainSaleaeCheck ==
    /\ tool = "saleae" /\ mpc = "parse" /\ Len(loaded) = 4
    /\ IF AllLoaded(loaded)
       THEN /\ bus' = SPIDecoderDecode(loaded[2], loaded[1], loaded[3], loaded[4],
                                       CHOOSE r \in SampleRates : TRUE)
            /\ mpc' = "done"
       ELSE /\ bus' = bus
            /\ mpc' = "refused"
    /\ UNCHANGED <<tool, files, loaded, pktVars, parseVars, spiVars, callVars,
                   rerunVars>>

\* payloads of four files that decode: miso rises at 5; mosi is high from 3
\* to 7; the clock alternates from 1 on; select is low from 2 to 22
GoodPayload(c) ==
    IF c = 1 THEN <<5>>
    ELSE IF c = 2 THEN <<3, 4>>
    ELSE IF c = 3 THEN [k \in 1 .. ClockBytes |-> 1]
    ELSE <<1, 1, 20>>

\* a channel file: absent, empty, cut inside the header fields, a header
\* without payload, or a header and a payload
FileChoices(c) ==
    {Missing, Existing(<<>>), Existing(SubSeq(FullHeader, 1, MagicLen + 4)),
     Existing(FullHeader), Existing(FullHeader \o GoodPayload(c))}

InitMain ==
    /\ tool \in {"v2", "saleae"}
    /\ files \in {<<f1, f2, f3, f4>> : f1 \in FileChoices(1), f2 \in FileChoices(2),
                                       f3 \in FileChoices(3), f4 \in FileChoices(4)}
    /\ loaded = <<>>
    /\ bus = <<>>
    /\ mpc = "parse"
    /\ IdlePkt /\ IdleParse /\ IdleSpi /\ IdleCall /\ IdleRerun

NextMain ==
    \/ MainV2Parse
    \/ MainV2Check
    \/ MainV2Decode
    \/ MainSaleaeParse
    \/ MainSaleaeCheck

SpecMain == InitMain /\ [][NextMain]_vars

(***************************************************************************)
(* One query of a timeline: DigitalChannel.get_state_at and                *)
(* SPIDecoder.get_state_at_time on the same timeline and timestamp.        *)
(***************************************************************************)
\* timelines sorted by non-decreasing timestamp, equal timestamps included
SortedTimelines ==
    {tl \in SeqsOver((0 .. MaxTime) \X {0, 1}, MaxTimelineLen) : IsSorted(tl)}

InitLevel ==
    /\ q_in \in [transitions : SortedTimelines, timestamp : 0 .. (MaxTime + 1)]
    /\ q_out = None
    /\ qpc = "level"
    /\ IdlePkt /\ IdleParse /\ IdleSpi /\ IdleRerun /\ IdleMain

QueryLevel ==
    /\ qpc = "level"
    /\ q_out' = [get_state_at |-> GetStateAt(q_in.transitions, q_in.timestamp),
                 get_state_at_time |->
                     GetStateAtTime(q_in.transitions, q_in.timestamp)]
    /\ qpc' = "returned"
    /\ UNCHANGED <<q_in, pktVars, parseVars, spiVars, rerunVars, mainVars>>

NextLevel == QueryLevel

SpecLevel == InitLevel /\ [][NextLevel]_vars

(***************************************************************************)
(* Claims about extract_packets and analyze_cc110_commands (SpecPkt).      *)
(***************************************************************************)
\* history entry k is a leading command byte
IsLeading(k) == consumed[k].role = "cmd"

LeadingMosi(k) == At(transactions, consumed[k].idx).mosi

\* history entry k is a leading buffer-burst command followed by a transaction
IsBurstLeading(k) ==
    /\ IsLeading(k)
    /\ LeadingMosi(k) \in {63, 127, 191, 255}
    /\ consumed[k].idx + 1 < Len(transactions)

\* position in packets of the packet that burst-leading entry k starts
PacketOf(k) == Cardinality({m \in 1 .. k : IsBurstLeading(m)})

KnownStrobeValues == (48 .. 54) \cup (56 .. 61)

\* C2: every leading command byte with a known strobe value (0x30-0x36,
\* 0x38-0x3D) advances the interpreter by exactly one transaction, so the
\* transaction right after it is classified as a leading command byte, and
\* analyze_cc110_commands labels such a byte STROBE.
C2_StrobeConsumesOneTransaction ==
    /\ \A k \in 1 .. Len(consumed) :
         (IsLeading(k) /\ LeadingMosi(k) \in KnownStrobeValues /\ k < Len(consumed))
           => /\ consumed[k + 1].role = "cmd"
              /\ consumed[k + 1].idx = consumed[k].idx + 1
    /\ \A k \in 1 .. Len(labels) :
         transactions[k].mosi \in KnownStrobeValues => labels[k].cmd_type = "STROBE"

\* C3: an inbound packet has rssi and lqi populated iff at least two payload
\* bytes (after the length byte) were consumed, and then they come from the
\* last two payload bytes.
C3_MetricsIffTwoPayloadBytes ==
    \A n \in 1 .. Len(packets) :
        packets[n].direction = "RX" =>
            LET d == packets[n].data
                payload == Len(d) - 1
            IN  /\ (packets[n].rssi # None) <=> (payload >= 2)
                /\ (packets[n].lqi # None) <=> (payload >= 2)
                /\ payload >= 2 =>
                     /\ packets[n].rssi = Some(RssiTimes2(d[Len(d) - 1]))
                     /\ packets[n].lqi = Some(d[Len(d)] % 128)

\* C7: a leading 0x3F/0x7F at index j followed by at least one transaction
\* emits one TX packet with the time of transaction j and data = [L] followed
\* by the outbound bytes of the next min(L, 64, r) transactions; classification
\* resumes right after the last consumed transaction; at most 65 bytes.
C7_OutboundBurstPayload ==
    \A k \in 1 .. Len(consumed) :
        (IsBurstLeading(k) /\ LeadingMosi(k) \in {63, 127}) =>
            LET j == consumed[k].idx
                L == At(transactions, j + 1).mosi
                r == Len(transactions) - (j + 2)
                c == Min(Min(L, 64), r)
                n == PacketOf(k)
            IN  /\ n <= Len(packets)
                /\ packets[n].direction = "TX"
                /\ packets[n].time = At(transactions, j).time
                /\ packets[n].data =
                       <<L>> \o [m \in 1 .. c |-> At(transactions, j + 1 + m).mosi]
                /\ Len(packets[n].data) <= 65
                /\ IF k + c + 1 = Len(consumed)
                   THEN i = j + c + 2 /\ pc # "raised"
                   ELSE /\ consumed[k + c + 2].role = "cmd"
                        /\ consumed[k + c + 2].idx = j + c + 2

\* witness of C7: a returned run that emitted a TX packet whose declared length
\* exceeds 64 and was cut to 64 payload bytes, after which a command follows
C7_Witness ==
    /\ pc = "done"
    /\ \E n \in 1 .. Len(packets) :
         /\ packets[n].direction = "TX"
         /\ packets[n].data[1] > 64
         /\ Len(packets[n].data) = 65
    /\ consumed[Len(consumed)].role = "cmd"
    /\ Len(consumed) > 1

\* C9: an inbound burst with fewer than two bytes available for the metrics
\* (only the length byte in the packet) still emits its packet with rssi and
\* lqi absent, raises no error, and the run goes on to return.
C9_ShortInboundBurstNoError ==
    \A n \in 1 .. Len(packets) :
        (packets[n].direction = "RX" /\ Len(packets[n].data) < 2) =>
            /\ packets[n].rssi = None
            /\ packets[n].lqi = None
            /\ pc # "raised"

\* C10: for the trailing byte pair (r, q) of an inbound burst, 2*rssi =
\* signed(r) - 148, lqi = q mod 128, crc_ok = (q >= 128), and the emitted
\* Packet carries rssi, lqi and crc_ok.
C10_MetricsConversion ==
    \A n \in 1 .. Len(packets) :
        (packets[n].direction = "RX" /\ Len(packets[n].data) >= 2) =>
            LET d == packets[n].data
                r == d[Len(d) - 1]
                q == d[Len(d)]
                raw == IF r <= 127 THEN r ELSE r - 256
            IN  /\ packets[n].rssi = Some(raw - 148)
                /\ packets[n].lqi = Some(q % 128)
                /\ q % 128 \in 0 .. 127
                /\ "crc_ok" \in DOMAIN packets[n]
                /\ packets[n].crc_ok = Some(q >= 128)

(***************************************************************************)
(* Claims about parse_digital_channel_simple (SpecParse).                  *)
(***************************************************************************)
PayloadStart == Len(FullHeader)

\* the transition payload of the file (empty when the file is too short)
PayloadOf(buf) ==
    IF Len(buf) > PayloadStart THEN SubSeq(buf, PayloadStart + 1, Len(buf)) ELSE <<>>

\* number of fully terminated varints in a payload: bytes with the high bit clear
TerminatedVarints(p) == Cardinality({k \in 1 .. Len(p) : p[k] < 128})

EndsInsideVarint(p) == Len(p) > 0 /\ p[Len(p)] >= 128

\* C4: when the payload ends inside a varint, no error is raised and the
\* timeline holds exactly one transition per fully terminated varint: none is
\* appended for the incomplete trailing varint.
C4_IncompleteVarintAppendsNothing ==
    (StartsWithMagic(data) /\ EndsInsideVarint(PayloadOf(data))) =>
        /\ ppc # "raised"
        /\ ppc = "returned" => Len(channel) = TerminatedVarints(PayloadOf(data))

\* C5: a buffer that does not begin with the magic ends in an error outcome
\* (FormatError) that differs from a normal return of an empty timeline, and
\* no transition is produced.
C5_BadMagicIsFormatError ==
    ~StartsWithMagic(data) =>
        /\ channel = <<>>
        /\ ppc # "returned"

(***************************************************************************)
(* Claims about decode_spi_bytes and SPIDecoder.decode (SpecSpi).          *)
(***************************************************************************)
\* Window pairing as the specification words it: a falling transition outside
\* a window opens one at its timestamp, the next rising transition closes it.
RECURSIVE PairedWindows(_, _, _, _, _)
PairedWindows(tl, k, inside, start, acc) ==
    IF k > Len(tl) THEN acc
    ELSE IF ~inside /\ St(tl[k]) = 0
         THEN PairedWindows(tl, k + 1, TRUE, Ts(tl[k]), acc)
    ELSE IF inside /\ St(tl[k]) = 1
         THEN PairedWindows(tl, k + 1, FALSE, start, Append(acc, <<start, Ts(tl[k])>>))
    ELSE PairedWindows(tl, k + 1, inside, start, acc)

BusWindows(tl) == PairedWindows(tl, 1, FALSE, 0, <<>>)

V2WindowsFound == spc \in {"v2_bytes", "dec_find", "dec_bytes", "done"}
V2Returned == spc \in {"dec_find", "dec_bytes", "done"}
DecWindowsFound == spc \in {"dec_bytes", "done"}
DecReturned == spc = "done"

\* C1: window extraction emits exactly one Bus Window per falling transition
\* seen outside a window, paired with the next rising transition, for every
\* start timestamp >= 0; [(10,0),(50,1),(100,0),(140,1)] gives
\* [(10,50),(100,140)].
C1_WindowExtraction ==
    /\ V2WindowsFound => cs_low_periods = BusWindows(cs)
    /\ DecWindowsFound => cs_active_periods = BusWindows(cs)
    /\ (V2WindowsFound /\ cs = ExampleCs) =>
           cs_low_periods = <<<<10, 50>>, <<100, 140>>>>

\* level-1 clock transitions of a window, ascending: e1..en
WindowEdges(w) ==
    LET rising == SelectSeq(sclk, LAMBDA tr : St(tr) = 1 /\ w[1] <= Ts(tr) /\ Ts(tr) <= w[2])
    IN  [k \in 1 .. Len(rising) |-> Ts(rising[k])]

\* sum over j = 1..8 of level_at(e_(8(k-1)+j)) * 2^(8-j)
FramedByte(tl, edges, k) ==
    LET e(j) == edges[8 * (k - 1) + j]
    IN  GetStateAt(tl, e(1)) * 128 + GetStateAt(tl, e(2)) * 64
          + GetStateAt(tl, e(3)) * 32 + GetStateAt(tl, e(4)) * 16
          + GetStateAt(tl, e(5)) * 8 + GetStateAt(tl, e(6)) * 4
          + GetStateAt(tl, e(7)) * 2 + GetStateAt(tl, e(8))

\* the floor(n/8) Bus Transactions of one window, timestamps in samples
WindowTransactions(w) ==
    LET edges == WindowEdges(w)
    IN  [k \in 1 .. (Len(edges) \div 8) |->
            <<edges[8 * k], FramedByte(mosi, edges, k), FramedByte(miso, edges, k)>>]

RECURSIVE TransactionsOfFirst(_, _)
TransactionsOfFirst(windows, n) ==
    IF n = 0 THEN <<>>
    ELSE TransactionsOfFirst(windows, n - 1) \o WindowTransactions(windows[n])

\* the same transactions with the timestamp converted to seconds
InSeconds(txs) ==
    [k \in 1 .. Len(txs) |->
        <<[samples |-> txs[k][1], per_second |-> sample_rate], txs[k][2], txs[k][3]>>]

\* C6: inside a window with level-1 clock transitions e1..en the k-th emitted
\* transaction (1 <= k <= floor(n/8)) has timestamp e_(8k) and bytes
\* sum_j level_at(e_(8(k-1)+j)) * 2^(8-j): most significant bit first, both
\* accumulators restarting at zero after each byte; bits 10110100 give 0xB4.
C6_ByteFraming ==
    /\ V2WindowsFound =>
           v2_transactions = TransactionsOfFirst(cs_low_periods, period_num)
    /\ DecWindowsFound =>
           dec_transactions = InSeconds(TransactionsOfFirst(cs_active_periods, dec_period))

\* witness of C6: both decoders returned, the window handled last by
\* decode_spi_bytes gave two bytes, both 0xB4 on data-out (bits 10110100 twice)
C6_Witness ==
    /\ spc = "done"
    /\ Len(bytes_decoded) = 2
    /\ bytes_decoded[1][2] = 180 /\ bytes_decoded[2][2] = 180
    /\ bytes_decoded[1][3] = 170
    /\ Len(dec_transactions) >= 2

\* C8: the output holds the Bus Transactions of every extracted window with at
\* least 8 level-1 clock transitions, in window order, however many windows
\* the select timeline yields.
C8_AllWindowsDecoded ==
    /\ V2Returned =>
           v2_transactions = TransactionsOfFirst(cs_low_periods, Len(cs_low_periods))
    /\ DecReturned =>
           dec_transactions =
               InSeconds(TransactionsOfFirst(cs_active_periods, Len(cs_active_periods)))

(***************************************************************************)
(* One read of a variable-length integer: read_varint and                  *)
(* SaleaeParser.decode_variable_length_int on the same buffer and offset.  *)
(***************************************************************************)
\* v as 7-bit groups, low-order group first, high bit set on all but the last
RECURSIVE EncodeVarint(_)
EncodeVarint(v) ==
    IF v < 128 THEN <<v>>
    ELSE <<128 + (v % 128)>> \o EncodeVarint(v \div 128)

\* every small integer, and the integers around each change of encoded length
VarintValues ==
    (0 .. MaxVarintValue)
    \cup {Pow2(7 * n) - 1 : n \in 1 .. (MaxVarintBytes - 1)}
    \cup {Pow2(7 * n) : n \in 1 .. (MaxVarintBytes - 1)}

\* bytes around the encoding: with and without the continuation bit
Prefixes == SeqsOver({0, 129}, MaxPrefix)
Suffixes == {<<>>, <<1>>, <<129>>}

\* the encoding of v placed behind a prefix, the call made at its first byte
EncodedCalls ==
    {[data |-> p \o EncodeVarint(v) \o s, offset |-> Len(p), v |-> Some(v)] :
        v \in VarintValues, p \in Prefixes, s \in Suffixes}

\* the call made where no byte remains: at the end of the buffer or past it
EndCalls ==
    {[data |-> p, offset |-> Len(p) + d, v |-> None] : p \in Prefixes, d \in {0, 1}}

InitVarint ==
    /\ q_in \in EncodedCalls \cup EndCalls
    /\ q_out = None
    /\ qpc = "varint"
    /\ IdlePkt /\ IdleParse /\ IdleSpi /\ IdleRerun /\ IdleMain

ReadOneVarint ==
    /\ qpc = "varint"
    /\ q_out' = [read_varint |-> ReadVarint(q_in.data, q_in.offset),
                 decode_variable_length_int |->
                     DecodeVariableLengthInt(q_in.data, q_in.offset)]
    /\ qpc' = "returned"
    /\ UNCHANGED <<q_in, pktVars, parseVars, spiVars, rerunVars, mainVars>>

NextVarint == ReadOneVarint

SpecVarint == InitVarint /\ [][NextVarint]_vars

(***************************************************************************)
(* Claims about get_state_at / get_state_at_time (SpecLevel).              *)
(***************************************************************************)
\* positions of the transitions with timestamp <= t
AtOrBefore(tl, t) == {k \in 1 .. Len(tl) : Ts(tl[k]) <= t}

\* level of the last transition, in sequence order, with timestamp <= t
LevelAt(tl, t) ==
    IF AtOrBefore(tl, t) = {} THEN 0
    ELSE St(tl[CHOOSE k \in AtOrBefore(tl, t) : \A j \in AtOrBefore(tl, t) : j <= k])

\* C11: on a timeline sorted by non-decreasing timestamp, get_state_at(t) and
\* get_state_at_time(t) return the level of the last transition in sequence
\* order whose timestamp is <= t, and 0 when there is none.
C11_LevelOfLastTransitionAtOrBefore ==
    qpc = "returned" =>
        /\ q_out.get_state_at = LevelAt(q_in.transitions, q_in.timestamp)
        /\ q_out.get_state_at_time = LevelAt(q_in.transitions, q_in.timestamp)

\* a query answered at the shared timestamp of two transitions of opposite
\* level, the later one being the last of the timeline
C11_Witness ==
    /\ qpc = "returned"
    /\ Len(q_in.transitions) >= 2
    /\ LET n == Len(q_in.transitions)
       IN  /\ Ts(q_in.transitions[n - 1]) = Ts(q_in.transitions[n])
           /\ St(q_in.transitions[n - 1]) = 0
           /\ St(q_in.transitions[n]) = 1
           /\ q_in.timestamp = Ts(q_in.transitions[n])
           /\ q_out.get_state_at = 1

(***************************************************************************)
(* Claims about read_varint / decode_variable_length_int (SpecVarint).     *)
(***************************************************************************)
\* C12: reading the encoding of v at the offset where it was placed returns v
\* and the number of encoded bytes, whatever precedes and follows it; a read
\* where no byte remains returns bytes_consumed = 0.
C12_VarintRoundTrip ==
    qpc = "returned" =>
        IF q_in.v # None
        THEN LET expected == [value |-> q_in.v[1],
                              bytes_consumed |-> Len(EncodeVarint(q_in.v[1]))]
             IN  /\ q_out.read_varint = expected
                 /\ q_out.decode_variable_length_int = expected
        ELSE /\ q_out.read_varint.bytes_consumed = 0
             /\ q_out.decode_variable_length_int.bytes_consumed = 0

\* a three-byte encoding read back from the middle of a buffer
C12_Witness ==
    /\ qpc = "returned"
    /\ q_in.v = Some(Pow2(14))
    /\ q_in.offset > 0
    /\ Len(q_in.data) > q_in.offset + 3
    /\ q_out.read_varint = [value |-> Pow2(14), bytes_consumed |-> 3]

(***************************************************************************)
(* Further claims about extract_packets (SpecPkt).                         *)
(***************************************************************************)
Roles == {"cmd", "length", "payload", "data"}

\* C13: the index never goes back and moves forward on every iteration, every
\* transaction is consumed in exactly one role (the k-th read is transaction
\* k - 1, so none is read twice and none is skipped), and the interpreter
\* reaches the end of the sequence: it never stops by an exception, and it
\* returns only once every transaction has been consumed.
C13_ConsumedOnceAndReachesEnd ==
    pc # "idle" =>
        /\ \A k \in 1 .. Len(consumed) :
               consumed[k].idx = k - 1 /\ consumed[k].role \in Roles
        /\ Len(consumed) <= Len(transactions)
        /\ pc = "loop" => i = Len(consumed)
        /\ pc = "done" => i = Len(transactions) /\ Len(consumed) = Len(transactions)
        /\ pc # "raised"

\* register addresses the interpreter knows: 0x00-0x2E and 0x30-0x3B
KnownRegisterAddresses == (0 .. 46) \cup (48 .. 59)

BurstIdentifiers == {63, 127, 191, 255}

\* C18: a leading command byte that is no buffer-burst identifier and whose
\* low 6 bits are a known register address emits no packet and consumes the
\* next transaction as its data phase, so the next leading byte is two
\* transactions later; a leading byte that matches no branch emits no packet
\* and the next leading byte is the very next transaction.
C18_RegisterAdvancesTwoUnknownOne ==
    \A k \in 1 .. Len(consumed) :
        (IsLeading(k) /\ LeadingMosi(k) \notin BurstIdentifiers) =>
            LET j == consumed[k].idx
                cmd == LeadingMosi(k)
            IN  /\ \A n \in 1 .. Len(packets) :
                       packets[n].time # At(transactions, j).time
                /\ (cmd % 64) \in KnownRegisterAddresses =>
                       IF j + 1 < Len(transactions)
                       THEN /\ k + 1 <= Len(consumed)
                            /\ consumed[k + 1] = [idx |-> j + 1, role |-> "data"]
                            /\ IF k + 1 = Len(consumed)
                               THEN i = j + 2
                               ELSE consumed[k + 2] = [idx |-> j + 2, role |-> "cmd"]
                       ELSE k = Len(consumed) /\ i = j + 1
                /\ ((cmd % 64) \notin KnownRegisterAddresses
                        /\ cmd \notin KnownStrobeValues) =>
                       IF k = Len(consumed)
                       THEN i = j + 1
                       ELSE consumed[k + 1] = [idx |-> j + 1, role |-> "cmd"]

\* a register write (0x02 and its data byte), then the unknown command 0x2F,
\* then one more leading byte; the run returned without a packet
C18_Witness ==
    /\ pc = "done"
    /\ packets = <<>>
    /\ Len(consumed) = 4
    /\ IsLeading(1) /\ LeadingMosi(1) = 2
    /\ consumed[2].role = "data"
    /\ IsLeading(3) /\ LeadingMosi(3) = 47
    /\ IsLeading(4)

(***************************************************************************)
(* Claims about the safety limit of parse_digital_channel_simple           *)
(* (SpecCeiling).                                                          *)
(***************************************************************************)
\* C14: in every state of the decode loop the number of transitions appended
\* is at most the safety ceiling (here SmallLimit), and the loop does not end
\* by an exception.
C14_AtMostCeilingTransitions ==
    ppc \in {"loop", "returned", "raised"} =>
        /\ Len(channel) <= SmallLimit
        /\ transition_count <= SmallLimit
        /\ ppc # "raised"

(***************************************************************************)
(* Further claims about parse_digital_channel_simple (SpecParse).          *)
(***************************************************************************)
\* the deltas a payload holds, in order: each group of bytes up to a byte
\* with the high bit clear (or up to the end of the payload) is one integer,
\* 7 bits a byte, low-order group first
RECURSIVE Deltas(_, _, _, _)
Deltas(p, k, value, weight) ==
    IF k > Len(p) THEN (IF k = 1 \/ p[k - 1] < 128 THEN <<>> ELSE <<value>>)
    ELSE LET value2 == value + (p[k] % 128) * weight
         IN  IF p[k] < 128
             THEN <<value2>> \o Deltas(p, k + 1, 0, 1)
             ELSE Deltas(p, k + 1, value2, weight * 128)

RECURSIVE SumOfFirst(_, _)
SumOfFirst(ds, n) == IF n = 0 THEN 0 ELSE SumOfFirst(ds, n - 1) + ds[n]

\* C15: after any number of decode steps the timestamps of the timeline are
\* non-decreasing, the n-th transition's timestamp is the sum of the first n
\* deltas of the payload, and the running timestamp is the sum of all deltas
\* decoded so far.
C15_TimestampsAccumulate ==
    ppc \in {"loop", "returned"} =>
        LET ds == Deltas(PayloadOf(data), 1, 0, 1)
        IN  /\ Len(channel) <= Len(ds)
            /\ \A n \in 1 .. Len(channel) : Ts(channel[n]) = SumOfFirst(ds, n)
            /\ \A n \in 1 .. (Len(channel) - 1) : Ts(channel[n]) <= Ts(channel[n + 1])
            /\ timestamp = SumOfFirst(ds, Len(channel))
            /\ transition_count = Len(channel)

\* three transitions decoded, the second from a two-byte varint, all deltas
\* positive
C15_Witness ==
    /\ ppc = "returned"
    /\ Len(channel) = 3
    /\ Ts(channel[1]) > 0
    /\ Ts(channel[2]) - Ts(channel[1]) >= 128
    /\ Ts(channel[3]) > Ts(channel[2])
    /\ timestamp = Ts(channel[3])

(***************************************************************************)
(* Claims about two calls of extract_packets (SpecTwice).                  *)
(***************************************************************************)
\* C16: the second call of extract_packets on the same list ends as the first
\* did, with an identical packet sequence (times, directions, payloads, rssi,
\* lqi), and the list passed in is never modified.
C16_SecondRunIdentical ==
    run \in {1, 2} =>
        /\ transactions = first_run.transactions
        /\ (run = 2 /\ pc \in {"done", "raised"}) =>
               /\ packets = first_run.packets
               /\ pc = first_run.pc

\* both calls returned an inbound packet that carries rssi and lqi
C16_Witness ==
    /\ run = 2 /\ pc = "done"
    /\ Len(packets) >= 1
    /\ packets[1].direction = "RX"
    /\ packets[1].rssi # None
    /\ first_run.pc = "done"

(***************************************************************************)
(* Claims about main (SpecMain).                                           *)
(***************************************************************************)
\* what the tool's parser gives for a file
ParseOf(t, file) ==
    IF t = "v2" THEN ParseDigitalChannelSimple(file) ELSE SaleaeParseDigitalChannel(file)

\* channel c is missing or yields no transitions
NotDecoded(c) == ~files[c].exists \/ ParseOf(tool, files[c]).transitions = <<>>

\* the bus reconstruction has been started
ReconstructionStarted == mpc \in {"decode", "done"}

\* C17: the bus reconstruction is started only when all four channels were
\* decoded; when one of them is missing or yields no transitions the pipeline
\* ends in the refusal (the error message and return) and no transaction is
\* produced.
C17_RefusedUnlessAllFourDecoded ==
    tool # "none" =>
        /\ ReconstructionStarted => \A c \in 1 .. 4 : ~NotDecoded(c)
        /\ (\E c \in 1 .. 4 : NotDecoded(c)) =>
               /\ mpc \in {"parse", "refused"}
               /\ bus = <<>>

(***************************************************************************)
(* Further claims about decode_spi_bytes and SPIDecoder.decode (SpecSpi).  *)
(***************************************************************************)
\* timestamps e_8, e_16, ... of the floor(n/8) transactions a window with
\* level-1 clock transitions e1..en contributes
WindowTimestamps(w) ==
    LET edges == WindowEdges(w)
    IN  [k \in 1 .. (Len(edges) \div 8) |-> edges[8 * k]]

RECURSIVE TimestampsOfFirst(_, _)
TimestampsOfFirst(windows, n) ==
    IF n = 0 THEN <<>>
    ELSE TimestampsOfFirst(windows, n - 1) \o WindowTimestamps(windows[n])

\* C19: every Bus Window of the select timeline, with n level-1 clock
\* transitions, contributes exactly floor(n/8) transactions to the output: the
\* one of its k-th byte is stamped e_(8k) of that window, so no bit is carried
\* over from the window before, and a window with n < 8 contributes none.
C19_WindowContributesFloorOfEighth ==
    /\ V2Returned =>
           [k \in 1 .. Len(v2_transactions) |-> v2_transactions[k][1]]
               = TimestampsOfFirst(BusWindows(cs), Len(BusWindows(cs)))
    /\ DecReturned =>
           [k \in 1 .. Len(dec_transactions) |-> dec_transactions[k][1].samples]
               = TimestampsOfFirst(BusWindows(cs), Len(BusWindows(cs)))

\* timestamps of the transactions decode_spi_bytes has appended so far
V2Timestamps == [k \in 1 .. Len(v2_transactions) |-> v2_transactions[k][1]]

\* no two transitions of the clock timeline share a timestamp
ClockStrictlySorted == \A k \in 1 .. (Len(sclk) - 1) : Ts(sclk[k]) < Ts(sclk[k + 1])

\* the transactions of a window are contiguous, the windows in extraction order
GroupedByWindow == V2Timestamps = TimestampsOfFirst(cs_low_periods, period_num)

\* C20 as stated: over the whole output every transaction's timestamp is
\* greater than that of the transaction before it, the transactions of one
\* window contiguous and the windows in extraction order.
C20_StrictlyAscending ==
    V2WindowsFound =>
        /\ GroupedByWindow
        /\ \A k \in 1 .. (Len(V2Timestamps) - 1) : V2Timestamps[k] < V2Timestamps[k + 1]

\* C20 amended: the timestamps of the output never decrease, and increase
\* strictly when no two clock transitions share a timestamp; the transactions
\* of one window are contiguous and the windows in extraction order.
C20_Ascending ==
    V2WindowsFound =>
        /\ GroupedByWindow
        /\ \A k \in 1 .. (Len(V2Timestamps) - 1) : V2Timestamps[k] <= V2Timestamps[k + 1]
        /\ ClockStrictlySorted =>
               \A k \in 1 .. (Len(V2Timestamps) - 1) :
                   V2Timestamps[k] < V2Timestamps[k + 1]

\* two windows that meet at one timestamp, both decoded: one byte from the
\* first, two from the second
C20_Witness ==
    /\ V2Returned
    /\ Len(cs_low_periods) = 2
    /\ cs_low_periods[1][2] = cs_low_periods[2][1]
    /\ ClockStrictlySorted
    /\ Len(WindowTimestamps(cs_low_periods[1])) = 1
    /\ Len(v2_transactions) = 3

(***************************************************************************)
(* Claims about the levels and the header handling of                      *)
(* parse_digital_channel_simple (SpecParse).                               *)
(***************************************************************************)
\* C21: in every timeline parse_digital_channel_simple builds, the k-th
\* transition has level k mod 2: the first has level 1, no two consecutive
\* transitions share a level, and the running level is that of the last one.
C21_LevelsAlternate ==
    ppc \in {"loop", "returned", "raised"} =>
        /\ \A k \in 1 .. Len(channel) : St(channel[k]) = k % 2
        /\ \A k \in 1 .. (Len(channel) - 1) : St(channel[k]) # St(channel[k + 1])
        /\ current_state = Len(channel) % 2

\* a returned timeline of four transitions: levels 1, 0, 1, 0
C21_Witness ==
    /\ ppc = "returned"
    /\ Len(channel) = 4
    /\ St(channel[1]) = 1 /\ St(channel[4]) = 0

\* C22: for every buffer that begins with the magic, whatever its length,
\* parse_digital_channel_simple returns and never raises, and the returned
\* timeline is empty when the buffer holds no payload byte.
C22_TruncatedHeaderReturnsTimeline ==
    (ppc \in {"loop", "returned", "raised"} /\ StartsWithMagic(data)) =>
        /\ ppc # "raised"
        /\ (ppc = "returned" /\ Len(data) <= Len(FullHeader)) => channel = <<>>

(***************************************************************************)
(* Claims about which clock edges a window samples (SpecSpi).              *)
(***************************************************************************)
\* positions in the clock timeline of the level-1 transitions inside window w
EdgesInside(w) ==
    {c \in 1 .. Len(sclk) : St(sclk[c]) = 1 /\ w[1] <= Ts(sclk[c]) /\ Ts(sclk[c]) <= w[2]}

\* clock transitions window w gets a bit from: decode_spi_bytes skips a window
\* with fewer than 8 of them, SPIDecoder.decode samples whatever there is
V2SampledBy(w) ==
    IF Cardinality(EdgesInside(w)) < 8 THEN {} ELSE EdgesInside(w)

DecSampledBy(w) == EdgesInside(w)

RECURSIVE BytesOfFirst(_, _)
BytesOfFirst(windows, n) ==
    IF n = 0 THEN 0
    ELSE BytesOfFirst(windows, n - 1) + (Cardinality(EdgesInside(windows[n])) \div 8)

\* no clock transition is in two of the sets sampled[1], ..., sampled[n]
SampledAtMostOnce(sampled, n) ==
    \A p, q \in 1 .. n : p < q => sampled[p] \cap sampled[q] = {}

\* a clock transition in two of the sets lies on the closing timestamp of the
\* earlier window and on the opening timestamp of the later one
SharedOnlyOnBoundary(windows, sampled, n) ==
    \A p, q \in 1 .. n :
        p < q => \A c \in sampled[p] \cap sampled[q] :
                     /\ Ts(sclk[c]) = windows[p][2]
                     /\ Ts(sclk[c]) = windows[q][1]

C24_DecodersAgree ==
    (DecReturned /\ Len(BusWindows(cs)) <= 10) =>
        dec_transactions = InSeconds(v2_transactions)

(***************************************************************************)
(* Claim about the packets extract_packets emits (SpecPkt).                *)
(***************************************************************************)
\* the packets the caller of extract_packets gets: none when the call ends by
\* an exception
EmittedPackets == IF pc = "raised" THEN <<>> ELSE packets

DirectionOf(cmd) == IF cmd \in {63, 127} THEN "TX" ELSE "RX"

\* the packet list holds one packet per burst-leading entry of the history, in
\* the order of those entries, stamped and directed by its leading transaction
OnePacketPerBurstLeading(emitted) ==
    /\ Len(emitted) = PacketOf(Len(consumed))
    /\ \A k \in 1 .. Len(consumed) :
           IsBurstLeading(k) =>
               /\ emitted[PacketOf(k)].time = At(transactions, consumed[k].idx).time
               /\ emitted[PacketOf(k)].direction = DirectionOf(LeadingMosi(k))

\* C25: extract_packets emits exactly one Packet for each leading buffer-burst
\* command (0x3F/0x7F outbound, 0xBF/0xFF inbound) that is followed by at least
\* one transaction and no Packet otherwise (none for a burst command in the
\* last position, none for a length, payload or data-phase byte), in the order
\* of the leading transactions.
C25_OnePacketPerBurstCommand ==
    pc # "idle" => OnePacketPerBurstLeading(EmittedPackets)

====
